---- MODULE Spec2Model ----
(***************************************************************************)
(* dep-migrate (src/src/index.ts): the lookup cache, the two cached        *)
(* lookups fetchNpmInfo and fetchAlternative, the operator prompt, and the *)
(* two runs scanDependencies and migrateDependencies.                      *)
(*                                                                         *)
(* Every `await` of the source is two steps here: the call (its            *)
(* synchronous part: the cache test, the request being sent) and the       *)
(* resumption once the promise has settled.  The registry, the search      *)
(* service and the operator are the environment: what they answer is       *)
(* chosen freely from small sets.                                          *)
(***************************************************************************)
EXTENDS Integers, Sequences, FiniteSets, TLC

\* ---------------------------------------------------------------- bounds
\* Entries (both sections together) of the manifest read at the start.
MaxDeps == 2
\* Entries present in the cache file when the process starts.
MaxCached == 1
\* Calls the fetch driver makes (specification SpecFetch).
MaxCalls == 3

\* Package names a manifest may list, and names the search may suggest.
Names == {"p", "q"}
AltNames == {"p", "q"}

\* ----------------------------------------------------------- JSON values
\* What a cache slot, a promise or a local can hold.
Undefined == [t |-> "undefined"]
JNull == [t |-> "null"]
JStr(s) == [t |-> "string", s |-> s]
JBool(b) == [t |-> "boolean", b |-> b]
\* A registry document: dist-tags.latest and versions[latest].deprecated
\* ("" when the version carries no deprecation message).
JInfo(msg) == [t |-> "object", latest |-> "1.0.0", deprecated |-> msg]

\* JavaScript truthiness, as used by `cache[k]`, `deprecatedMsg`, `alt`.
Truthy(v) ==
    CASE v.t = "undefined" -> FALSE
      [] v.t = "null" -> FALSE
      [] v.t = "string" -> v.s # ""
      [] v.t = "boolean" -> v.b
      [] OTHER -> TRUE

\* The registry answers with a document (an object), deprecated or not.
InfoVals == {JInfo(""), JInfo("gone")}
AltVals == {JNull} \cup {JStr(n) : n \in AltNames}

\* ------------------------------------------------------------- the cache
CacheKinds == {"npmInfo", "alt"}
\* `npmInfo:${pkg}` and `alt:${pkg}`
CacheKey(kind, p) == <<kind, p>>
CacheKeys == {CacheKey(k, p) : k \in CacheKinds, p \in Names}
SlotVals(key) == IF key[1] = "npmInfo" THEN InfoVals ELSE AltVals

\* loadCache: the file a previous process saved, or {} when there is none
\* or it does not parse.
CacheFiles ==
    {c \in [CacheKeys -> {Undefined} \cup InfoVals \cup AltVals] :
        /\ \A k \in CacheKeys : c[k] \in {Undefined} \cup SlotVals(k)
        /\ Cardinality({k \in CacheKeys : c[k] # Undefined}) <= MaxCached}

\* `!refresh && cache[key]`
CacheHit_consultsOnRefresh(c, key, r) == Truthy(c[key])
CacheHit(c, key, r) == (~r) /\ Truthy(c[key])

\* `cache[key] = value; saveCache()`
CacheStore(c, key, v) == [c EXCEPT ![key] = v]

\* ---------------------------------------------------------- the manifest
Sections == <<"dependencies", "devDependencies">>
NoSection == [present |-> FALSE, entries |-> <<>>]

\* Object.keys(section): the names in stored order.
Keys(s) == [k \in 1..Len(s.entries) |-> s.entries[k].name]
Has(s, n) == \E k \in 1..Len(s.entries) : s.entries[k].name = n
VersionOf(s, n) ==
    s.entries[CHOOSE k \in 1..Len(s.entries) : s.entries[k].name = n].version
IsLatest(s, n) == \E k \in 1..Len(s.entries) :
    s.entries[k].name = n /\ s.entries[k].version = "latest"
\* `delete section[n]`
DeleteEntry_keeps(s, n) == s
DeleteEntry(s, n) ==
    [s EXCEPT !.entries = SelectSeq(@, LAMBDA e : e.name # n)]
\* `section[n] = v`: in place when n is a key, appended otherwise.
SetEntry(s, n, v) ==
    IF Has(s, n)
    THEN [s EXCEPT !.entries =
            [k \in 1..Len(@) |-> IF @[k].name = n
                                 THEN [name |-> n, version |-> v] ELSE @[k]]]
    ELSE [s EXCEPT !.entries = Append(@, [name |-> n, version |-> v])]

\* Sequences of distinct names, none longer than n.
DistinctSeqs(S, n) ==
    {s \in UNION {[1..k -> S] : k \in 0..n} :
        \A a, b \in 1..Len(s) : a # b => s[a] # s[b]}
SectionOf(s) ==
    [present |-> TRUE,
     entries |-> [k \in 1..Len(s) |-> [name |-> s[k], version |-> "^1.0.0"]]]
SectionValues == {NoSection} \cup {SectionOf(s) : s \in DistinctSeqs(Names, MaxDeps)}
\* The package.json files a run may find.
Manifests ==
    {[dependencies |-> d, devDependencies |-> e] : d \in SectionValues, e \in SectionValues}
ManifestsRead ==
    {m \in Manifests :
        Len(m.dependencies.entries) + Len(m.devDependencies.entries) <= MaxDeps}

\* `{ ...(pkg.dependencies || {}), ...(pkg.devDependencies || {}) }`, keys only:
\* the first section's names, then the second's that are new.
MergedKeys(m) ==
    LET a == Keys(m.dependencies)
        b == Keys(m.devDependencies)
    IN a \o SelectSeq(b, LAMBDA n : \A k \in 1..Len(a) : a[k] # n)

\* --------------------------------------------------------------- answers
\* What the operator may type, as characters.
Answers == {<<>>, <<"n">>, <<"y">>, <<"Y">>, <<"N", "o">>, <<"y", "e", "s">>, <<" ", "y">>}
ToLowerChar(ch) == CASE ch = "Y" -> "y" [] ch = "N" -> "n" [] OTHER -> ch
ToLowerCase(s) == [k \in 1..Len(s) |-> ToLowerChar(s[k])]
StartsWith(s, pre) == Len(s) >= Len(pre) /\ SubSeq(s, 1, Len(pre)) = pre
\* askQuestion: answer.toLowerCase().startsWith("y")
AskQuestion_defaultYes(answer) == ~StartsWith(ToLowerCase(answer), <<"n">>)
AskQuestion(answer) == StartsWith(ToLowerCase(answer), <<"y">>)

\* ------------------------------------------------------------ environment
\* What the registry request ends in: the "error" event or a body JSON.parse
\* rejects (ok = FALSE), or a body that parses to `parsed`.
RegistryResponses ==
    {[ok |-> FALSE, parsed |-> Undefined]} \cup {[ok |-> TRUE, parsed |-> v] : v \in InfoVals}
\* What the search request ends in: a failure, or a result list given by the
\* package name of each result ("" for a result without one).
ResultLists == {<<>>, <<"">>} \cup {<<n>> : n \in AltNames}
SearchResponses ==
    {[ok |-> FALSE, results |-> <<>>]} \cup {[ok |-> TRUE, results |-> r] : r \in ResultLists}
\* `parsed.results[0].package?.name || null` when there is a first result.
Suggestion(results) ==
    IF Len(results) > 0 /\ results[1] # "" THEN JStr(results[1]) ELSE JNull

\* `info["dist-tags"]` throws a TypeError on null and undefined.
ReadThrows(info) == info.t \in {"null", "undefined"}
\* `info.versions?.[latest]?.deprecated`
DeprecatedMsg(info) == IF info.t = "object" THEN info.deprecated ELSE ""

\* ------------------------------------------------------------------ state
VARIABLES
    mode,           \* what the menu started: "scan", "migrate", or "fetch" (the driver)
    interactive, dryRun, jsonOutput, refresh,   \* the run's options
    cache,          \* the lookup cache (memory and file: saved on every store)
    disk,           \* package.json on disk
    pkg,            \* the manifest in memory
    pc,             \* where the run is
    sec,            \* index into Sections (migrate)
    keys,           \* the names the current loop iterates
    i,              \* index into keys
    call,           \* the promise the run is awaiting
    info, alt,      \* locals of the loop body
    results, modified, replacedCount, skippedCount, deprecatedCount,
    summary,        \* the counts the human-readable scan summary prints
    writes, installs, netCalls,   \* calls of writePackageJson, runInstall, https.get
    inflight,       \* requests and prompts started and not yet settled
    \* history, read by the properties only
    pkg0,           \* the manifest as read at the start
    visits,         \* one record per loop iteration that has ended
    prevCall, nCalls    \* the driver's previous call, and how many it made

vars == <<mode, interactive, dryRun, jsonOutput, refresh, cache, disk, pkg, pc, sec,
          keys, i, call, info, alt, results, modified, replacedCount, skippedCount,
          deprecatedCount, summary, writes, installs, netCalls, inflight, pkg0,
          visits, prevCall, nCalls>>

optVars == <<mode, interactive, dryRun, jsonOutput, refresh>>
loopVars == <<results, modified, replacedCount, skippedCount, deprecatedCount>>
runVars == <<disk, pkg, pc, sec, keys, i, info, alt, summary, writes, installs, pkg0, visits>>
driverVars == <<prevCall, nCalls>>

NoCall == [fn |-> "none", pkg |-> "", refresh |-> FALSE, st |-> "idle",
           net |-> "none", val |-> Undefined, old |-> Undefined, raw |-> <<>>]
NoManifest == [dependencies |-> NoSection, devDependencies |-> NoSection]
NoSummary == [printed |-> FALSE, total |-> 0, deprecated |-> 0, healthy |-> 0]

\* `await`: the caller resumes once the promise has settled.
Awaited_noWait(c) == TRUE
Awaited(c) == c.st \in {"resolved", "rejected"}

\* --------------------------------------------------------------- lookups
\* fetchNpmInfo, up to the request being sent: a truthy cache slot is
\* returned without a request unless refresh is set.
CallFetchNpmInfo(p, r) ==
    LET key == CacheKey("npmInfo", p) IN
    IF CacheHit(cache, key, r)
    THEN /\ call' = [fn |-> "fetchNpmInfo", pkg |-> p, refresh |-> r, st |-> "resolved",
                     net |-> "none", val |-> cache[key], old |-> cache[key], raw |-> <<>>]
         /\ UNCHANGED <<netCalls, inflight>>
    ELSE /\ call' = [fn |-> "fetchNpmInfo", pkg |-> p, refresh |-> r, st |-> "pending",
                     net |-> "sent", val |-> Undefined, old |-> cache[key], raw |-> <<>>]
         /\ netCalls' = netCalls + 1
         /\ inflight' = inflight + 1

\* fetchAlternative, up to the request being sent.
CallFetchAlternative(p, r) ==
    LET key == CacheKey("alt", p) IN
    IF CacheHit(cache, key, r)
    THEN /\ call' = [fn |-> "fetchAlternative", pkg |-> p, refresh |-> r, st |-> "resolved",
                     net |-> "none", val |-> cache[key], old |-> cache[key], raw |-> <<>>]
         /\ UNCHANGED <<netCalls, inflight>>
    ELSE /\ call' = [fn |-> "fetchAlternative", pkg |-> p, refresh |-> r, st |-> "pending",
                     net |-> "sent", val |-> Undefined, old |-> cache[key], raw |-> <<>>]
         /\ netCalls' = netCalls + 1
         /\ inflight' = inflight + 1

\* askQuestion, up to the prompt being shown.
CallAskQuestion(p) ==
    /\ call' = [fn |-> "askQuestion", pkg |-> p, refresh |-> FALSE, st |-> "pending",
                net |-> "none", val |-> Undefined, old |-> Undefined, raw |-> <<>>]
    /\ inflight' = inflight + 1
    /\ UNCHANGED netCalls

\* The registry request ends: the body is parsed, stored and resolved, or the
\* promise is rejected and the cache left alone.
RegistryResponds ==
    /\ call.fn = "fetchNpmInfo" /\ call.st = "pending"
    /\ \E resp \in RegistryResponses :
          IF resp.ok
          THEN /\ cache' = CacheStore(cache, CacheKey("npmInfo", call.pkg), resp.parsed)
               /\ call' = [call EXCEPT !.st = "resolved", !.net = "ok", !.val = resp.parsed]
          ELSE /\ call' = [call EXCEPT !.st = "rejected", !.net = "failed"]
               /\ UNCHANGED cache
    /\ inflight' = inflight - 1
    /\ UNCHANGED <<optVars, runVars, loopVars, driverVars, netCalls>>

\* The search request ends: the suggestion is stored and resolved, or null is
\* resolved and the cache left alone.
SearchResponds ==
    /\ call.fn = "fetchAlternative" /\ call.st = "pending"
    /\ \E resp \in SearchResponses :
          IF resp.ok
          THEN /\ cache' = CacheStore(cache, CacheKey("alt", call.pkg), Suggestion(resp.results))
               /\ call' = [call EXCEPT !.st = "resolved", !.net = "ok",
                                       !.val = Suggestion(resp.results)]
          ELSE /\ call' = [call EXCEPT !.st = "resolved", !.net = "failed", !.val = JNull]
               /\ UNCHANGED cache
    /\ inflight' = inflight - 1
    /\ UNCHANGED <<optVars, runVars, loopVars, driverVars, netCalls>>

\* The operator answers the prompt.
OperatorAnswers ==
    /\ call.fn = "askQuestion" /\ call.st = "pending"
    /\ \E answer \in Answers :
          call' = [call EXCEPT !.st = "resolved", !.val = JBool(AskQuestion(answer)),
                               !.raw = answer]
    /\ inflight' = inflight - 1
    /\ UNCHANGED <<optVars, runVars, loopVars, driverVars, netCalls, cache>>

\* ------------------------------------------------------- scanDependencies
\* History: how one loop iteration ended.  answered: the operator was asked;
\* accepted: doReplace; beginsY: the answer typed begins with "y" or "Y";
\* touched: the iteration changed the manifest in memory.
Visit(section, dep, outcome, a, answered, accepted, beginsY, touched) ==
    [section |-> section, dep |-> dep, outcome |-> outcome, alt |-> a,
     answered |-> answered, accepted |-> accepted, beginsY |-> beginsY,
     touched |-> touched]
BeginsWithY(answer) == Len(answer) > 0 /\ answer[1] \in {"y", "Y"}

\* The catch block of a loop body: the next iteration follows.
AfterFailure_aborts(k, ks) == Len(ks) + 1
AfterFailure(k, ks) == k + 1

\* readPackageJson, and the merge of the two sections.
S_Start ==
    /\ mode = "scan" /\ pc = "start"
    /\ pkg' = disk
    /\ keys' = MergedKeys(disk)
    /\ i' = 1
    /\ pc' = "dep"
    /\ UNCHANGED <<optVars, loopVars, driverVars, cache, disk, sec, call, info, alt,
                   summary, writes, installs, netCalls, inflight, pkg0, visits>>

\* The loop head: `await fetchNpmInfo(dep, refresh)` is called.
S_Dep ==
    /\ mode = "scan" /\ pc = "dep" /\ i <= Len(keys)
    /\ CallFetchNpmInfo(keys[i], refresh)
    /\ pc' = "awaitInfo"
    /\ UNCHANGED <<optVars, loopVars, driverVars, cache, disk, pkg, sec, keys, i, info,
                   alt, summary, writes, installs, pkg0, visits>>

\* fetchNpmInfo has settled: the catch block, the deprecated branch up to
\* `await fetchAlternative(dep, refresh)`, or the healthy branch.
S_Info ==
    /\ mode = "scan" /\ pc = "awaitInfo" /\ Awaited(call)
    /\ pkg' = pkg
    /\ IF call.st # "resolved" \/ ReadThrows(call.val)
       THEN /\ visits' = Append(visits, Visit("merged", keys[i], "failed", Undefined, FALSE, FALSE, FALSE, pkg' # pkg))
            /\ i' = AfterFailure(i, keys)
            /\ pc' = "dep"
            /\ call' = NoCall
            /\ UNCHANGED <<netCalls, inflight, info, loopVars>>
       ELSE IF DeprecatedMsg(call.val) # ""
       THEN /\ info' = call.val
            /\ deprecatedCount' = deprecatedCount + 1
            /\ CallFetchAlternative(keys[i], refresh)
            /\ pc' = "awaitAlt"
            /\ UNCHANGED <<visits, i, results, modified, replacedCount, skippedCount>>
       ELSE /\ info' = Undefined
            /\ results' = IF jsonOutput
                          THEN Append(results, [dependency |-> keys[i], deprecated |-> FALSE])
                          ELSE results
            /\ visits' = Append(visits, Visit("merged", keys[i], "healthy", Undefined, FALSE, FALSE, FALSE, pkg' # pkg))
            /\ i' = i + 1
            /\ pc' = "dep"
            /\ call' = NoCall
            /\ UNCHANGED <<netCalls, inflight, modified, replacedCount, skippedCount,
                           deprecatedCount>>
    /\ UNCHANGED <<optVars, driverVars, cache, disk, sec, keys, alt, summary, writes,
                   installs, pkg0>>

\* fetchAlternative has settled: the verdict is recorded.
S_Alt ==
    /\ mode = "scan" /\ pc = "awaitAlt" /\ Awaited(call)
    /\ pkg' = pkg
    /\ results' = Append(results, [dependency |-> keys[i], deprecated |-> TRUE,
                                   message |-> DeprecatedMsg(info), alternative |-> call.val])
    /\ visits' = Append(visits, Visit("merged", keys[i], "deprecated", call.val, FALSE, FALSE, FALSE, pkg' # pkg))
    /\ i' = i + 1
    /\ pc' = "dep"
    /\ call' = NoCall /\ info' = Undefined
    /\ UNCHANGED <<optVars, driverVars, cache, disk, sec, keys, alt, modified,
                   replacedCount, skippedCount, deprecatedCount, summary, writes, installs,
                   netCalls, inflight, pkg0>>

\* After the loop: the JSON document, or the summary with its three counts.
S_End ==
    /\ mode = "scan" /\ pc = "dep" /\ i > Len(keys)
    /\ summary' = IF jsonOutput THEN summary
                  ELSE [printed |-> TRUE, total |-> Len(keys), deprecated |-> deprecatedCount,
                        healthy |-> Len(keys) - deprecatedCount]
    /\ pc' = "done"
    /\ UNCHANGED <<optVars, loopVars, driverVars, cache, disk, pkg, sec, keys, i, call, info,
                   alt, writes, installs, netCalls, inflight, pkg0, visits>>

\* ---------------------------------------------------- migrateDependencies
\* The record and the branch taken for a deprecated dependency.
MigrateAction_ignoresDryRun(doReplace, a, dry) ==
    IF doReplace /\ Truthy(a) THEN "replaced" ELSE "skipped"
MigrateAction_ignoresAnswer(doReplace, a, dry) ==
    IF Truthy(a) THEN (IF dry THEN "would-replace" ELSE "replaced") ELSE "skipped"
MigrateAction(doReplace, a, dry) ==
    IF doReplace /\ Truthy(a)
    THEN (IF dry THEN "would-replace" ELSE "replaced")
    ELSE "skipped"

\* `!dryRun && modified`
ShouldWrite_always(dry, m) == TRUE
ShouldWrite(dry, m) == (~dry) /\ m

\* The body of `if (doReplace && alt) ... else ...` and the end of the iteration.
Decide(doReplace, a, answered, beginsY) ==
    LET dep == keys[i]
        section == Sections[sec]
        act == MigrateAction(doReplace, a, dryRun)
    IN /\ results' = Append(results,
              IF act = "skipped" THEN [dependency |-> dep, action |-> act]
              ELSE [dependency |-> dep, action |-> act, alternative |-> a])
       /\ IF act = "replaced"
          THEN /\ pkg' = [pkg EXCEPT ![section] = SetEntry(DeleteEntry(@, dep), a.s, "latest")]
               /\ modified' = TRUE
               /\ replacedCount' = replacedCount + 1
               /\ UNCHANGED skippedCount
          ELSE /\ skippedCount' = skippedCount + 1
               /\ UNCHANGED <<pkg, modified, replacedCount>>
       /\ visits' = Append(visits, Visit(section, dep, act, a, answered, doReplace, beginsY,
                                        pkg' # pkg))
       /\ i' = i + 1
       /\ pc' = "dep"

\* readPackageJson.
M_Start ==
    /\ mode = "migrate" /\ pc = "start"
    /\ pkg' = disk
    /\ sec' = 1
    /\ pc' = "section"
    /\ UNCHANGED <<optVars, loopVars, driverVars, cache, disk, keys, i, call, info, alt,
                   summary, writes, installs, netCalls, inflight, pkg0, visits>>

\* The outer loop head: a missing section is passed over, a present one has
\* its keys taken; after the last section the loop is left.
M_Section ==
    /\ mode = "migrate" /\ pc = "section"
    /\ IF sec > Len(Sections)
       THEN pc' = "post" /\ UNCHANGED <<sec, keys, i>>
       ELSE IF ~pkg[Sections[sec]].present
       THEN sec' = sec + 1 /\ UNCHANGED <<pc, keys, i>>
       ELSE keys' = Keys(pkg[Sections[sec]]) /\ i' = 1 /\ pc' = "dep" /\ UNCHANGED sec
    /\ UNCHANGED <<optVars, loopVars, driverVars, cache, disk, pkg, call, info, alt, summary,
                   writes, installs, netCalls, inflight, pkg0, visits>>

\* The inner loop head: `await fetchNpmInfo(dep, refresh)` is called, or the
\* section is finished.
M_Dep ==
    /\ mode = "migrate" /\ pc = "dep"
    /\ IF i > Len(keys)
       THEN /\ sec' = sec + 1
            /\ pc' = "section"
            /\ UNCHANGED <<call, netCalls, inflight>>
       ELSE /\ CallFetchNpmInfo(keys[i], refresh)
            /\ pc' = "awaitInfo"
            /\ UNCHANGED sec
    /\ UNCHANGED <<optVars, loopVars, driverVars, cache, disk, pkg, keys, i, info, alt,
                   summary, writes, installs, pkg0, visits>>

\* fetchNpmInfo has settled: the catch block, the deprecated branch up to
\* `await fetchAlternative(dep, refresh)`, or "is fine".
M_Info ==
    /\ mode = "migrate" /\ pc = "awaitInfo" /\ Awaited(call)
    /\ pkg' = pkg
    /\ IF call.st # "resolved" \/ ReadThrows(call.val)
       THEN /\ visits' = Append(visits, Visit(Sections[sec], keys[i], "failed", Undefined, FALSE, FALSE, FALSE, pkg' # pkg))
            /\ i' = AfterFailure(i, keys)
            /\ pc' = "dep"
            /\ call' = NoCall
            /\ UNCHANGED <<netCalls, inflight, info>>
       ELSE IF DeprecatedMsg(call.val) # ""
       THEN /\ info' = call.val
            /\ CallFetchAlternative(keys[i], refresh)
            /\ pc' = "awaitAlt"
            /\ UNCHANGED <<visits, i>>
       ELSE /\ info' = Undefined
            /\ visits' = Append(visits, Visit(Sections[sec], keys[i], "healthy", Undefined, FALSE, FALSE, FALSE, pkg' # pkg))
            /\ i' = i + 1
            /\ pc' = "dep"
            /\ call' = NoCall
            /\ UNCHANGED <<netCalls, inflight>>
    /\ UNCHANGED <<optVars, loopVars, driverVars, cache, disk, sec, keys, alt, summary,
                   writes, installs, pkg0>>

\* fetchAlternative has settled: the prompt is shown (interactive), or the
\* replacement is decided with doReplace = true.
M_Alt ==
    /\ mode = "migrate" /\ pc = "awaitAlt" /\ Awaited(call)
    /\ IF interactive
       THEN /\ alt' = call.val
            /\ CallAskQuestion(keys[i])
            /\ pc' = "awaitAnswer"
            /\ UNCHANGED <<loopVars, pkg, visits, i, info>>
       ELSE /\ Decide(TRUE, call.val, FALSE, FALSE)
            /\ call' = NoCall /\ info' = Undefined /\ alt' = Undefined
            /\ UNCHANGED <<netCalls, inflight, deprecatedCount>>
    /\ UNCHANGED <<optVars, driverVars, cache, disk, sec, keys, summary, writes,
                   installs, pkg0>>

\* askQuestion has settled: the replacement is decided with its answer.
M_Answer ==
    /\ mode = "migrate" /\ pc = "awaitAnswer" /\ Awaited(call)
    /\ Decide(Truthy(call.val), alt, TRUE, BeginsWithY(call.raw))
    /\ call' = NoCall /\ info' = Undefined /\ alt' = Undefined
    /\ UNCHANGED <<optVars, driverVars, cache, disk, sec, keys, summary,
                   writes, installs, netCalls, inflight, pkg0, deprecatedCount>>

\* After the loops: writePackageJson when the manifest was modified and this
\* is no dry run.
M_Post ==
    /\ mode = "migrate" /\ pc = "post"
    /\ IF ShouldWrite(dryRun, modified)
       THEN disk' = pkg /\ writes' = writes + 1 /\ pc' = "install"
       ELSE pc' = "done" /\ UNCHANGED <<disk, writes>>
    /\ UNCHANGED <<optVars, loopVars, driverVars, cache, pkg, sec, keys, i, call, info, alt,
                   summary, installs, netCalls, inflight, pkg0, visits>>

\* runInstall(detectPackageManager()): the install command runs; its failure
\* is logged and changes nothing.
M_Install ==
    /\ mode = "migrate" /\ pc = "install"
    /\ installs' = installs + 1
    /\ pc' = "done"
    /\ UNCHANGED <<optVars, loopVars, driverVars, cache, disk, pkg, sec, keys, i, call, info,
                   alt, summary, writes, netCalls, inflight, pkg0, visits>>

\* ------------------------------------------------------------ fetch driver
\* A caller of the two lookups that calls them one after the other with
\* arguments of its choice.
DriverCalls ==
    /\ mode = "fetch" /\ call.st \in {"idle", "resolved", "rejected"}
    /\ nCalls < MaxCalls
    /\ nCalls' = nCalls + 1
    /\ prevCall' = call
    /\ \E p \in Names, r \in BOOLEAN, fn \in {"fetchNpmInfo", "fetchAlternative"} :
          IF fn = "fetchNpmInfo" THEN CallFetchNpmInfo(p, r) ELSE CallFetchAlternative(p, r)
    /\ UNCHANGED <<optVars, runVars, loopVars, cache>>

\* ---------------------------------------------------------- specifications
InitCommon ==
    /\ cache \in CacheFiles
    /\ pkg = NoManifest
    /\ sec = 1 /\ keys = <<>> /\ i = 1
    /\ call = NoCall /\ info = Undefined /\ alt = Undefined
    /\ results = <<>> /\ modified = FALSE
    /\ replacedCount = 0 /\ skippedCount = 0 /\ deprecatedCount = 0
    /\ summary = NoSummary
    /\ writes = 0 /\ installs = 0 /\ netCalls = 0 /\ inflight = 0
    /\ visits = <<>>
    /\ prevCall = NoCall /\ nCalls = 0

\* The process after loadCache and the menu: a scan or a migration with the
\* flags the operator ticked (a scan takes only json and refresh).
Init ==
    /\ InitCommon
    /\ mode \in {"scan", "migrate"}
    /\ jsonOutput \in BOOLEAN /\ refresh \in BOOLEAN
    /\ interactive \in (IF mode = "migrate" THEN BOOLEAN ELSE {FALSE})
    /\ dryRun \in (IF mode = "migrate" THEN BOOLEAN ELSE {FALSE})
    /\ disk \in ManifestsRead
    /\ pkg0 = disk
    /\ pc = "start"

Next ==
    \/ S_Start \/ S_Dep \/ S_Info \/ S_Alt \/ S_End
    \/ M_Start \/ M_Section \/ M_Dep \/ M_Info \/ M_Alt \/ M_Answer \/ M_Post \/ M_Install
    \/ RegistryResponds \/ SearchResponds \/ OperatorAnswers

Spec == Init /\ [][Next]_vars

InitFetch ==
    /\ InitCommon
    /\ mode = "fetch"
    /\ jsonOutput = FALSE /\ refresh = FALSE /\ interactive = FALSE /\ dryRun = FALSE
    /\ disk = NoManifest
    /\ pkg0 = disk
    /\ pc = "driver"

NextFetch == DriverCalls \/ RegistryResponds \/ SearchResponds

SpecFetch == InitFetch /\ [][NextFetch]_vars

\* ------------------------------------------------------------- properties
IsPrefix(a, b) == Len(a) <= Len(b) /\ SubSeq(b, 1, Len(a)) = a
SectionOrder(m, name) == [k \in 1..Len(m[name].entries) |-> <<name, m[name].entries[k].name>>]
\* The iterations a run of the manifest read at the start owes, in order.
ExpectedOrder ==
    IF mode = "scan"
    THEN [k \in 1..Len(MergedKeys(pkg0)) |-> <<"merged", MergedKeys(pkg0)[k]>>]
    ELSE SectionOrder(pkg0, "dependencies") \o SectionOrder(pkg0, "devDependencies")
VisitOrder == [k \in 1..Len(visits) |-> <<visits[k].section, visits[k].dep>>]
Decided == {"replaced", "would-replace", "skipped"}
DecidedUpTo(k) == Cardinality({j \in 1..k : visits[j].outcome \in Decided})
FailedCount == Cardinality({k \in 1..Len(visits) : visits[k].outcome = "failed"})
Settled(c) == c.st \in {"resolved", "rejected"}
SameLookup(a, b) == a.fn = b.fn /\ a.pkg = b.pkg /\ a.fn \in {"fetchNpmInfo", "fetchAlternative"}
Requests(c) == IF c.net = "none" THEN 0 ELSE 1

\* C1: two calls of fetchNpmInfo, or of fetchAlternative, in a row for the
\* same package with refresh = false, neither lookup failing, send at most
\* one request between them, and the second returns what the first returned.
C1_CacheIdempotence ==
    (/\ mode = "fetch" /\ Settled(prevCall) /\ Settled(call) /\ SameLookup(prevCall, call)
     /\ ~prevCall.refresh /\ ~call.refresh
     /\ prevCall.net # "failed" /\ call.net # "failed")
    => /\ Requests(prevCall) + Requests(call) <= 1
       /\ call.val = prevCall.val

\* C2: in a dry run the manifest is never written, the install never run,
\* the manifest in memory and on disk stays the one read at the start, and
\* an accepted replacement is reported as "would-replace", never "replaced".
C2_DryRunNonMutation ==
    (mode = "migrate" /\ dryRun) =>
        /\ writes = 0 /\ installs = 0
        /\ disk = pkg0
        /\ (pc # "start" => pkg = pkg0)
        /\ \A k \in 1..Len(results) : results[k].action # "replaced"
        /\ \A k \in 1..Len(visits) :
              /\ ~visits[k].touched
              /\ (visits[k].outcome \in Decided /\ visits[k].accepted /\ Truthy(visits[k].alt))
                    => visits[k].outcome = "would-replace"
C2_Witness ==
    /\ mode = "migrate" /\ dryRun /\ pc = "done"
    /\ \E k \in 1..Len(visits) : visits[k].outcome = "would-replace" /\ visits[k].answered
    /\ \E k \in 1..Len(visits) : visits[k].outcome = "would-replace" /\ visits[k].alt # JStr(visits[k].dep)

LaterReplaced(k, P(_)) ==
    \E j \in (k + 1)..Len(visits) :
        /\ visits[j].outcome = "replaced" /\ visits[j].section = visits[k].section
        /\ P(visits[j])
\* C3 as stated: after a finished run with interactive = false and dryRun =
\* false, every deprecated dependency d with a non-null alternative a is
\* absent from its section, where a is present at "latest".
C3_ReplacementAtEnd ==
    (mode = "migrate" /\ ~interactive /\ ~dryRun /\ pc = "done") =>
        \A k \in 1..Len(visits) :
            (visits[k].outcome \in Decided /\ Truthy(visits[k].alt)) =>
                /\ ~Has(pkg[visits[k].section], visits[k].dep)
                /\ ~Has(disk[visits[k].section], visits[k].dep)
                /\ IsLatest(pkg[visits[k].section], visits[k].alt.s)
                /\ IsLatest(disk[visits[k].section], visits[k].alt.s)
\* C3 amended: such a d is recorded "replaced", and after the finished run a
\* is present in d's section at "latest" unless a later replacement in that
\* section replaced a itself, and d is absent from it unless a = d or a
\* later replacement in that section has d as its alternative; the manifest
\* on disk is the one in memory.
C3_ReplacementUnlessOverwritten ==
    (mode = "migrate" /\ ~interactive /\ ~dryRun /\ pc = "done") =>
        \A k \in 1..Len(visits) :
            (visits[k].outcome \in Decided /\ Truthy(visits[k].alt)) =>
                LET d == visits[k].dep
                    a == visits[k].alt.s
                    s == visits[k].section
                IN /\ visits[k].outcome = "replaced"
                   /\ disk = pkg
                   /\ (~LaterReplaced(k, LAMBDA v : v.dep = a)) => IsLatest(pkg[s], a)
                   /\ (a # d /\ ~LaterReplaced(k, LAMBDA v : v.alt.s = d)) => ~Has(pkg[s], d)
C3_Witness ==
    /\ mode = "migrate" /\ ~interactive /\ ~dryRun /\ pc = "done"
    /\ Len(visits) = 2 /\ visits[1].section # visits[2].section
    /\ \A k \in 1..2 :
          /\ visits[k].outcome = "replaced"
          /\ visits[k].alt # JStr(visits[k].dep)
          /\ ~Has(disk[visits[k].section], visits[k].dep)
          /\ IsLatest(disk[visits[k].section], visits[k].alt.s)

\* C4: the counts the scan summary prints and the number of failed lookups
\* add up to the number of dependencies.
C4_ScanTotals ==
    (mode = "scan" /\ pc = "done" /\ summary.printed) =>
        summary.deprecated + summary.healthy + FailedCount = summary.total

\* C5 as stated: a call with refresh = true sends a request whatever the
\* cache holds, and once it has returned the cache slot holds what it returned.
C5_RefreshOverwrites ==
    (mode = "fetch" /\ Settled(call) /\ call.refresh) =>
        /\ call.net # "none"
        /\ (call.st = "resolved" => cache[CacheKey(IF call.fn = "fetchNpmInfo" THEN "npmInfo" ELSE "alt", call.pkg)] = call.val)
\* C5 amended: a call with refresh = true sends a request whatever the cache
\* holds; when the request succeeds and its body parses, the cache slot holds
\* the new result afterwards; when it fails, the slot is left as it was.
C5_RefreshBypass ==
    (mode = "fetch" /\ Settled(call) /\ call.refresh) =>
        LET slot == cache[CacheKey(IF call.fn = "fetchNpmInfo" THEN "npmInfo" ELSE "alt", call.pkg)]
        IN /\ call.net # "none"
           /\ (call.net = "ok" => call.st = "resolved" /\ slot = call.val)
           /\ (call.net = "failed" => slot = call.old)
C5_Witness ==
    /\ mode = "fetch" /\ Settled(call) /\ call.refresh /\ call.net = "ok"
    /\ Truthy(call.old) /\ Truthy(call.val) /\ call.old # call.val
    /\ cache[CacheKey("alt", call.pkg)] = call.val /\ call.fn = "fetchAlternative"

C7_WriteGating ==
    mode = "migrate" =>
        /\ writes <= 1 /\ installs <= writes
        /\ (writes = 1 =>
              /\ ~dryRun /\ modified
              /\ \E k \in 1..Len(visits) : visits[k].outcome = "replaced"
              /\ pc \in {"install", "done"}
              /\ disk = pkg)
        /\ (pc = "done" => installs = writes)
        /\ ((\A k \in 1..Len(visits) : visits[k].outcome \notin Decided)
              => writes = 0 /\ installs = 0 /\ disk = pkg0)
C7_Witness ==
    /\ mode = "migrate" /\ pc = "done" /\ writes = 1 /\ installs = 1
    /\ disk # pkg0

\* C8: a failed fetchNpmInfo ends only its own iteration: the manifest is
\* left as it was, no record is added, and a finished run has gone through
\* every dependency of every section, and an unfinished run always has a
\* next step; fetchAlternative never rejects and returns null when its
\* request fails.
C8_FailureIsolation ==
    /\ (pc = "done" => VisitOrder = ExpectedOrder)
    /\ (pc # "done" => ENABLED Next)
    /\ \A k \in 1..Len(visits) : visits[k].outcome = "failed" => ~visits[k].touched
    /\ (mode = "migrate" => Len(results) <= Len(visits) - FailedCount)
    /\ (call.fn = "fetchAlternative" =>
          /\ call.st # "rejected"
          /\ (call.net = "failed" => call.st = "resolved" /\ call.val = JNull))
C8_Witness ==
    /\ mode = "migrate" /\ pc = "done" /\ Len(visits) = 2
    /\ visits[1].outcome = "failed" /\ visits[1].section = "dependencies"
    /\ visits[2].outcome = "replaced" /\ visits[2].section = "dependencies"
    /\ Has(pkg.dependencies, visits[1].dep)

\* C9: each iteration over a deprecated dependency adds exactly one record,
\* the others none; the record is "replaced" exactly when the replacement is
\* accepted, the alternative non-null and this is no dry run, "would-replace"
\* exactly when it is accepted, non-null and a dry run, "skipped" otherwise;
\* only a "replaced" iteration changes the manifest; every entry of every
\* section gets its own iteration.
C9_DecisionTable ==
    mode = "migrate" =>
        /\ Len(results) = DecidedUpTo(Len(visits))
        /\ \A k \in 1..Len(visits) :
              LET v == visits[k]
                  accepted == IF interactive THEN v.answered /\ v.beginsY ELSE TRUE
                  some == v.alt.t = "string"
              IN /\ v.touched => v.outcome = "replaced"
                 /\ v.outcome \in Decided =>
                      /\ results[DecidedUpTo(k)].dependency = v.dep
                      /\ results[DecidedUpTo(k)].action = v.outcome
                      /\ (v.outcome = "replaced") = (accepted /\ some /\ ~dryRun)
                      /\ (v.outcome = "would-replace") = (accepted /\ some /\ dryRun)
                      /\ (v.outcome = "skipped") = ~(accepted /\ some)
                      /\ (v.outcome # "skipped") =>
                            results[DecidedUpTo(k)].alternative = v.alt
        /\ (pc # "start" /\ pkg # pkg0) => \E k \in 1..Len(visits) : visits[k].outcome = "replaced"
        /\ (pc = "done" => Len(visits) = Len(pkg0.dependencies.entries)
                                          + Len(pkg0.devDependencies.entries))
C9_Witness ==
    /\ mode = "migrate" /\ pc = "done" /\ Len(visits) = 2 /\ Len(results) = 2
    /\ visits[1].dep = visits[2].dep /\ visits[1].section # visits[2].section
    /\ results[1].action = "replaced" /\ results[2].action = "skipped"

\* C10: never more than one lookup or prompt is in flight, and none while
\* the loop is between two iterations; the iterations come in the order of
\* the sections, dependencies first, and of the names stored in them; the
\* manifest is written only after the last iteration.
C10_Sequential ==
    /\ inflight <= 1
    /\ (pc \in {"start", "section", "dep", "post", "install", "done"} => inflight = 0)
    /\ IsPrefix(VisitOrder, ExpectedOrder)
    /\ (writes > 0 => VisitOrder = ExpectedOrder)
C10_Witness ==
    /\ mode = "migrate" /\ interactive /\ pc = "done" /\ writes = 1
    /\ Len(visits) = 2 /\ netCalls = 4
    /\ visits[1].section = "dependencies" /\ visits[2].section = "devDependencies"

====
